---- MODULE Spec2Model ----
(***************************************************************************)
(* The error accumulator of the Avro C++ schema compiler                   *)
(* (lang/c++/api/ErrorState.hh), the compile entry point that reports      *)
(* into it and the serializer of what it compiles (driven as               *)
(* lang/c++/test/SchemaTests.cc drives them).                              *)
(*                                                                         *)
(* Every member function of error_state is modelled statement by           *)
(* statement: a thread's pc names the source line it is about to execute.  *)
(***************************************************************************)
EXTENDS Integers, Sequences, FiniteSets, TLC

VARIABLES
    error_state_messages,   \* [Instances -> Seq(message)]: the std::queue of each error_state
    has_errored,            \* [Instances -> BOOLEAN]: the flag of each error_state
    buffers,                \* [StreamIds -> Seq(token)]: what each caller-visible stream holds
    pc,                     \* [Threads -> label]: the line each thread executes next
    frame,                  \* [Threads -> record]: arguments and locals of the running call
    hist                    \* [Threads -> record]: the state the running call started from

vars == <<error_state_messages, has_errored, buffers, pc, frame, hist>>

----------------------------------------------------------------------------
(* Bounds of the model *)

\* The longest queue a call may be started on so that it still fits.
MaxQueue == 3

\* The most lines a caller-visible stream holds.
MaxLines == 3

----------------------------------------------------------------------------
(* The objects of the program *)

Threads == {1, 2}

\* extern error_state avro_error_state;
avro_error_state == "avro_error_state"

Instances == {avro_error_state}

\* Messages a caller passes to recordError directly.
Msgs == {"m1", "m2"}

\* The "\n" that throwError writes after every message.
NL == "\n"

\* The stream buffers a caller can see: the one behind std::cerr and the one
\* behind a stream of the caller's own.
StreamIds == {"cerr", "os"}

\* A null streambuf pointer.
nullptr == "nullptr"

\* std::ostream(sb): basic_ios::init sets badbit when sb is null.
ostream(sb) == [rdbuf |-> sb, good |-> sb # nullptr]

\* std::cerr
std_cerr == ostream("cerr")

\* A null sink that is std::cerr after all.
nullout_cerr == ostream("cerr")

\* std::ostream nullout(nullptr);
nullout == ostream(nullptr)

\* output << s: the sentry fails on a stream that is not good, and then
\* nothing reaches any buffer.
Insert(bufs, output, s) ==
    IF output.good THEN [bufs EXCEPT ![output.rdbuf] = @ \o <<s>>] ELSE bufs

\* A push that puts the message at the head of the queue.
push_front(q, msg) == <<msg>> \o q

\* A front that reads the newest message.
front_newest(q) == q[Len(q)]

\* std::queue::push, front, pop, empty
push(q, msg) == Append(q, msg)
front(q) == Head(q)
pop(q) == Tail(q)
empty(q) == Len(q) = 0

----------------------------------------------------------------------------
(* The JSON value tree the parser hands to the builder *)

JString(s) == [j |-> "string", s |-> s]
JInt(n) == [j |-> "int", n |-> n]
JDouble(text) == [j |-> "double", text |-> text]
JNull == [j |-> "null"]
JArray(a) == [j |-> "array", a |-> a]
\* An object keeps its keys in the order of the text: a sequence of <<key, value>>.
JObject(o) == [j |-> "object", o |-> o]
\* A text that is not JSON.
Malformed == [j |-> "malformed"]
\* What looking up a key that is not there gives.
Absent == [j |-> "absent"]

\* A member whose value is a string.
Str(key, s) == <<key, JString(s)>>

Get(obj, key) ==
    LET at == {i \in 1..Len(obj.o) : obj.o[i][1] = key}
    IN  IF at = {} THEN Absent
        ELSE obj.o[CHOOSE i \in at : \A k \in at : i <= k][2]

----------------------------------------------------------------------------
(* JSON text: the sequence of its lexical tokens.  A string token holds the
   value of the string; the documents modelled hold no character that is
   written with an escape. *)

\* One of { } [ ] : ,
P(c) == [k |-> "p", c |-> c]
\* "s"
S(str) == [k |-> "s", s |-> str]
\* An integer, and a number with a fraction kept as its text.
N(n) == [k |-> "n", n |-> n]
D(text) == [k |-> "d", text |-> text]
\* null
NullToken == [k |-> "null"]
\* Whitespace: a line break followed by the indentation of a depth, or, with
\* depth -1, one space.
W(depth) == [k |-> "ws", depth |-> depth]

Is(tok, c) == tok.k = "p" /\ tok.c = c

\* std::remove_if(..., ::isspace): the text with its whitespace taken out.
\* No string the serializer writes for the documents modelled holds
\* whitespace.
Strip(text) == SelectSeq(text, LAMBDA tok : tok.k # "ws")

\* What the parser returns: the value read and the position after it; a text
\* that is not JSON gives Malformed.
Read(v, i) == [v |-> v, i |-> i]
NoParse == Read(Malformed, 0)

RECURSIVE ParseValue(_, _)
RECURSIVE ParseElems(_, _, _)
RECURSIVE ParseMembers(_, _, _)

\* After an element of an array: a comma and the next element, or the end.
ElemsAfter(ts, r, acc) ==
    IF r.v = Malformed \/ r.i > Len(ts) THEN NoParse
    ELSE IF Is(ts[r.i], ",") THEN ParseElems(ts, r.i + 1, Append(acc, r.v))
    ELSE IF Is(ts[r.i], "]") THEN Read(JArray(Append(acc, r.v)), r.i + 1)
    ELSE NoParse

ParseElems(ts, i, acc) == ElemsAfter(ts, ParseValue(ts, i), acc)

\* After a member of an object: a comma and the next member, or the end.
MembersAfter(ts, key, r, acc) ==
    IF r.v = Malformed \/ r.i > Len(ts) THEN NoParse
    ELSE IF Is(ts[r.i], ",") THEN ParseMembers(ts, r.i + 1, Append(acc, <<key, r.v>>))
    ELSE IF Is(ts[r.i], "}") THEN Read(JObject(Append(acc, <<key, r.v>>)), r.i + 1)
    ELSE NoParse

\* A member: a string key, a colon, a value.
ParseMembers(ts, i, acc) ==
    IF i + 2 > Len(ts) \/ ts[i].k # "s" \/ ~Is(ts[i + 1], ":") THEN NoParse
    ELSE MembersAfter(ts, ts[i].s, ParseValue(ts, i + 2), acc)

ParseValue(ts, i) ==
    IF i > Len(ts) THEN NoParse
    ELSE CASE ts[i].k = "s" -> Read(JString(ts[i].s), i + 1)
           [] ts[i].k = "n" -> Read(JInt(ts[i].n), i + 1)
           [] ts[i].k = "d" -> Read(JDouble(ts[i].text), i + 1)
           [] ts[i].k = "null" -> Read(JNull, i + 1)
           [] Is(ts[i], "[") ->
                 IF i < Len(ts) /\ Is(ts[i + 1], "]") THEN Read(JArray(<<>>), i + 2)
                 ELSE ParseElems(ts, i + 1, <<>>)
           [] Is(ts[i], "{") ->
                 IF i < Len(ts) /\ Is(ts[i + 1], "}") THEN Read(JObject(<<>>), i + 2)
                 ELSE ParseMembers(ts, i + 1, <<>>)
           [] OTHER -> NoParse

\* The whole text is one value.
WholeText(ts, r) == IF r.i = Len(ts) + 1 THEN r.v ELSE Malformed

\* Tokenizer/Parser: whitespace between tokens is skipped.
Parse(text) == WholeText(Strip(text), ParseValue(Strip(text), 1))

\* Writing a JSON value as text, compact or pretty.  Pretty puts every
\* element and member on a line of its own, indented by its depth, and a
\* space after every colon.
Break(pretty, depth) == IF pretty THEN <<W(depth)>> ELSE <<>>

RECURSIVE Write(_, _, _)
RECURSIVE WriteElems(_, _, _)
RECURSIVE WriteMembers(_, _, _)

WriteElems(a, pretty, depth) ==
    IF a = <<>> THEN <<>>
    ELSE Break(pretty, depth) \o Write(Head(a), pretty, depth)
            \o (IF Len(a) > 1 THEN <<P(",")>> ELSE <<>>)
            \o WriteElems(Tail(a), pretty, depth)

WriteMembers(o, pretty, depth) ==
    IF o = <<>> THEN <<>>
    ELSE Break(pretty, depth) \o <<S(Head(o)[1]), P(":")>>
            \o (IF pretty THEN <<W(-1)>> ELSE <<>>)
            \o Write(Head(o)[2], pretty, depth)
            \o (IF Len(o) > 1 THEN <<P(",")>> ELSE <<>>)
            \o WriteMembers(Tail(o), pretty, depth)

Write(v, pretty, depth) ==
    CASE v.j = "string" -> <<S(v.s)>>
      [] v.j = "int" -> <<N(v.n)>>
      [] v.j = "double" -> <<D(v.text)>>
      [] v.j = "null" -> <<NullToken>>
      [] v.j = "array" ->
            <<P("[")>> \o WriteElems(v.a, pretty, depth + 1)
               \o (IF v.a = <<>> THEN <<>> ELSE Break(pretty, depth)) \o <<P("]")>>
      [] v.j = "object" ->
            <<P("{")>> \o WriteMembers(v.o, pretty, depth + 1)
               \o (IF v.o = <<>> THEN <<>> ELSE Break(pretty, depth)) \o <<P("}")>>
      [] OTHER -> <<>>

----------------------------------------------------------------------------
(* Schema nodes *)

PrimitiveNames ==
    {"null", "boolean", "int", "long", "float", "double", "bytes", "string"}

\* What the header of a named type declares besides its qualified name: the
\* name and the namespace attribute as written, and the doc.
Decl(name, namespace, doc) == [name |-> name, namespace |-> namespace, doc |-> doc]
NoDecl == Decl("<undefined>", Absent, Absent)

Primitive(kind) == [t |-> "primitive", kind |-> kind]
Record(q, fields) == [t |-> "record", name |-> q, fields |-> fields, decl |-> NoDecl]
Field(name, type, default) ==
    [name |-> name, type |-> type, default |-> default, doc |-> Absent]
Enum(q, symbols) == [t |-> "enum", name |-> q, symbols |-> symbols, decl |-> NoDecl]
Array(items) == [t |-> "array", items |-> items]
Map(values) == [t |-> "map", values |-> values]
Union(branches) == [t |-> "union", branches |-> branches]
Fixed(q, size) == [t |-> "fixed", name |-> q, size |-> size, decl |-> NoDecl]
\* A reference to a named type, resolved through the symbol table.
Symbolic(q) == [t |-> "symbolic", name |-> q]
\* The marker of a subtree that could not be built.
Invalid == [t |-> "invalid"]

----------------------------------------------------------------------------
(* Symbol table: qualified name -> kind of the named type *)

EmptyTable == [n \in {} |-> "none"]

Qualify(ns, name) == IF ns = "" THEN name ELSE ns \o "." \o name

Undefined == "<undefined>"

\* resolve(name, currentNamespace): as fully qualified first, then relative
\* to the current namespace.
Resolve(name, ns, st) ==
    IF name \in DOMAIN st THEN name
    ELSE IF Qualify(ns, name) \in DOMAIN st THEN Qualify(ns, name)
    ELSE Undefined

\* What the builder logs, in the order it happens.
Err(msg) == <<"error", msg>>
Declared(q) == <<"declare", q>>
Body(q) == <<"body", q>>
Resolved(q) == <<"resolve", q>>

\* declare(qualifiedName, node)
Declare(q, kind, st) ==
    IF q \in DOMAIN st
    THEN [st |-> st, ev |-> <<Err("duplicate name")>>]
    ELSE [st |-> [n \in DOMAIN st \cup {q} |-> IF n = q THEN kind ELSE st[n]],
          ev |-> <<Declared(q)>>]

----------------------------------------------------------------------------
(* Validator *)

Repeat(x, k) == [i \in 1..k |-> x]

\* The positions of a sequence whose value already occurs before them.
Repeated(seq) == {i \in 1..Len(seq) : \E k \in 1..(i - 1) : seq[k] = seq[i]}

\* A check that takes a null default for no default at all, whatever the type.
Assignable_null(lit, node, st) ==
    \/ lit.j = "null"
    \/ node.t = "primitive" /\ node.kind \in {"int", "long", "float", "double"}
          /\ lit.j \in {"int", "double"}

RECURSIVE Assignable(_, _, _)
\* Whether a default literal's JSON kind is assignable to a field's type.
Assignable(lit, node, st) ==
    CASE node.t = "primitive" ->
            (CASE node.kind = "null" -> lit.j = "null"
               [] node.kind = "boolean" -> lit.j = "boolean"
               [] node.kind \in {"int", "long", "float", "double"} ->
                     lit.j \in {"int", "double"}
               [] OTHER -> lit.j = "string")
      [] node.t \in {"enum", "fixed"} -> lit.j = "string"
      [] node.t \in {"record", "map"} -> lit.j = "object"
      [] node.t = "array" -> lit.j = "array"
      [] node.t = "union" ->
            \E i \in 1..Len(node.branches) : Assignable(lit, node.branches[i], st)
      [] node.t = "symbolic" ->
            IF st[node.name] = "record" THEN lit.j = "object" ELSE lit.j = "string"
      [] OTHER -> FALSE

\* The union compatibility key of a branch.
UnionKey(node) ==
    CASE node.t = "primitive" -> <<"primitive", node.kind>>
      [] node.t \in {"record", "enum", "fixed", "symbolic"} -> <<"named", node.name>>
      [] OTHER -> <<node.t, "">>

\* A rule under which two arrays, or two maps, collide only when they are
\* the same type.
Colliding_sameType(nodes) ==
    {i \in 1..Len(nodes) :
        /\ nodes[i] # Invalid
        /\ \/ nodes[i].t = "union"
           \/ \E k \in 1..(i - 1) : nodes[k] = nodes[i]}

\* The branches that break the distinctness rule: a union directly in the
\* union, or a branch whose key an earlier branch has.
Colliding(nodes) ==
    {i \in 1..Len(nodes) :
        /\ nodes[i] # Invalid
        /\ \/ nodes[i].t = "union"
           \/ \E k \in 1..(i - 1) :
                 nodes[k] # Invalid /\ UnionKey(nodes[k]) = UnionKey(nodes[i])}

----------------------------------------------------------------------------
(* Type graph builder *)

Result(node, st, ev) == [node |-> node, st |-> st, ev |-> ev]

HasError(ev) == \E i \in 1..Len(ev) : ev[i][1] = "error"

\* The header of a named type: its name, qualified by its own namespace
\* attribute or else by the enclosing one.
Header(js, ns) ==
    LET name == Get(js, "name")
        nsAttr == Get(js, "namespace")
        doc == Get(js, "doc")
        own == IF nsAttr.j = "string" THEN nsAttr.s ELSE ns
    IN  IF name = Absent
        THEN [ok |-> FALSE, q |-> Undefined, ns |-> own, decl |-> NoDecl,
              ev |-> <<Err("missing name")>>]
        ELSE IF name.j # "string"
        THEN [ok |-> FALSE, q |-> Undefined, ns |-> own, decl |-> NoDecl,
              ev |-> <<Err("name must be a string")>>]
        ELSE [ok |-> TRUE, q |-> Qualify(own, name.s), ns |-> own,
              decl |-> Decl(name.s,
                            IF nsAttr.j = "string" THEN nsAttr ELSE Absent,
                            IF doc.j = "string" THEN doc ELSE Absent),
              ev |-> <<>>]

\* The header of a named type is recognised: the name is registered.
Registered(hd, d) ==
    [q |-> hd.q, ns |-> hd.ns, decl |-> hd.decl, st |-> d.st, ev |-> hd.ev \o d.ev]

\* A header that registers nothing before the body is processed.
RegisterHeader_late(hd, kind, st) == Registered(hd, [st |-> st, ev |-> <<>>])

RegisterHeader(hd, kind, st) ==
    Registered(hd, IF hd.ok THEN Declare(hd.q, kind, st) ELSE [st |-> st, ev |-> <<>>])

Register(js, ns, kind, st) == RegisterHeader(Header(js, ns), kind, st)

RECURSIVE Build(_, _, _)
RECURSIVE BuildBranches(_, _, _)
RECURSIVE BuildFields(_, _, _)

\* A bare string: a primitive type name or a reference to a named type.
BuildName(js, ns, st) ==
    IF js.s \in PrimitiveNames THEN Result(Primitive(js.s), st, <<>>)
    ELSE IF Resolve(js.s, ns, st) = Undefined
    THEN Result(Invalid, st, <<Err("undefined name")>>)
    ELSE Result(Symbolic(Resolve(js.s, ns, st)), st,
                <<Resolved(Resolve(js.s, ns, st))>>)

\* The elements of a JSON array, each built in turn with the symbol table the
\* one before it left.
BranchesAfter(h, rest, ns) ==
    LET r == BuildBranches(rest, ns, h.st)
    IN  [nodes |-> <<h.node>> \o r.nodes, st |-> r.st, ev |-> h.ev \o r.ev]

BuildBranches(elems, ns, st) ==
    IF elems = <<>> THEN [nodes |-> <<>>, st |-> st, ev |-> <<>>]
    ELSE BranchesAfter(Build(Head(elems), ns, st), Tail(elems), ns)

\* The union of the branches built; it is returned even when they collide.
UnionOf(b) ==
    Result(Union(b.nodes), b.st,
           b.ev \o Repeat(Err("union contains duplicate type"),
                          Cardinality(Colliding(b.nodes))))

\* A JSON array is a union.
BuildUnion(js, ns, st) == UnionOf(BuildBranches(js.a, ns, st))

\* A field whose type has been built: its default is checked against it.
FieldOf(name, default, b) ==
    [field |-> Field(IF name.j = "string" THEN name.s ELSE Undefined, b.node, default),
     st |-> b.st,
     ev |-> (IF name.j = "string" THEN <<>> ELSE <<Err("missing name")>>)
               \o b.ev
               \o (IF default # Absent /\ b.node # Invalid
                      /\ ~Assignable(default, b.node, b.st)
                   THEN <<Err("default value type mismatch")>>
                   ELSE <<>>)]

\* The field with the doc written on it.
Documented(r, doc) ==
    [r EXCEPT !.field.doc = IF doc.j = "string" THEN doc ELSE Absent]

\* One field of a record.
BuildField(f, ns, st) ==
    IF f.j # "object"
    THEN [field |-> Field(Undefined, Invalid, Absent), st |-> st,
          ev |-> <<Err("field must be an object")>>]
    ELSE Documented(FieldOf(Get(f, "name"), Get(f, "default"),
                            IF Get(f, "type") = Absent
                            THEN Result(Invalid, st, <<Err("missing type")>>)
                            ELSE Build(Get(f, "type"), ns, st)),
                    Get(f, "doc"))

FieldsAfter(h, rest, ns) ==
    LET r == BuildFields(rest, ns, h.st)
    IN  [fields |-> <<h.field>> \o r.fields, st |-> r.st, ev |-> h.ev \o r.ev]

BuildFields(fs, ns, st) ==
    IF fs = <<>> THEN [fields |-> <<>>, st |-> st, ev |-> <<>>]
    ELSE FieldsAfter(BuildField(Head(fs), ns, st), Tail(fs), ns)

\* A node that stands only when its subtree logged no error.
Checked(node, st, ev) == Result(IF HasError(ev) THEN Invalid ELSE node, st, ev)

\* The record whose fields have been built: the field names are checked.
RecordOf(reg, b) ==
    LET names == [i \in 1..Len(b.fields) |-> b.fields[i].name]
        dup == {i \in Repeated(names) : names[i] # Undefined}
    IN  Checked([Record(reg.q, b.fields) EXCEPT !.decl = reg.decl], b.st,
                reg.ev \o <<Body(reg.q)>> \o b.ev
                   \o Repeat(Err("duplicate field name"), Cardinality(dup)))

\* The body of a record whose name has been registered.
RecordBody(reg, fs) ==
    IF fs.j # "array"
    THEN Result(Invalid, reg.st, reg.ev \o <<Err("fields must be an array")>>)
    ELSE RecordOf(reg, BuildFields(fs.a, reg.ns, reg.st))

\* record and error: the name is registered, then the body is processed.
BuildRecord(js, ns, st) ==
    RecordBody(Register(js, ns, "record", st), Get(js, "fields"))

EnumBody(reg, syms) ==
    LET shape == syms.j = "array" /\ \A i \in 1..Len(syms.a) : syms.a[i].j = "string"
        symbols == IF shape THEN [i \in 1..Len(syms.a) |-> syms.a[i].s] ELSE <<>>
    IN  Checked([Enum(reg.q, symbols) EXCEPT !.decl = reg.decl], reg.st,
                reg.ev \o <<Body(reg.q)>>
                   \o (IF shape THEN <<>>
                       ELSE <<Err("symbols must be an array of strings")>>)
                   \o Repeat(Err("duplicate enum symbol"),
                             Cardinality(Repeated(symbols))))

BuildEnum(js, ns, st) == EnumBody(Register(js, ns, "enum", st), Get(js, "symbols"))

FixedBody(reg, size) ==
    Checked([Fixed(reg.q, IF size.j = "int" THEN size.n ELSE 0)
                EXCEPT !.decl = reg.decl], reg.st,
            reg.ev \o <<Body(reg.q)>>
               \o (IF size = Absent THEN <<Err("missing size")>>
                   ELSE IF size.j # "int" \/ size.n <= 0
                   THEN <<Err("size must be a positive integer")>>
                   ELSE <<>>))

BuildFixed(js, ns, st) == FixedBody(Register(js, ns, "fixed", st), Get(js, "size"))

ContainerOf(b, key) ==
    Result(IF b.node = Invalid THEN Invalid
           ELSE IF key = "items" THEN Array(b.node) ELSE Map(b.node),
           b.st, b.ev)

\* array and map: the items or values key is required and built recursively.
BuildContainer(js, ns, st, key) ==
    ContainerOf(IF Get(js, key) = Absent
                THEN Result(Invalid, st, <<Err("missing " \o key)>>)
                ELSE Build(Get(js, key), ns, st),
                key)

\* An object: its type key says what it declares; other keys are ignored.
BuildObject(js, ns, st) ==
    LET type == Get(js, "type")
    IN  IF type = Absent THEN Result(Invalid, st, <<Err("missing type")>>)
        ELSE IF type.j # "string" THEN Result(Invalid, st, <<Err("unknown type")>>)
        ELSE CASE type.s \in PrimitiveNames -> Result(Primitive(type.s), st, <<>>)
               [] type.s \in {"record", "error"} -> BuildRecord(js, ns, st)
               [] type.s = "enum" -> BuildEnum(js, ns, st)
               [] type.s = "fixed" -> BuildFixed(js, ns, st)
               [] type.s = "array" -> BuildContainer(js, ns, st, "items")
               [] type.s = "map" -> BuildContainer(js, ns, st, "values")
               [] OTHER -> Result(Invalid, st, <<Err("unknown type")>>)

Build(js, ns, st) ==
    CASE js.j = "string" -> BuildName(js, ns, st)
      [] js.j = "array" -> BuildUnion(js, ns, st)
      [] js.j = "object" -> BuildObject(js, ns, st)
      [] OTHER -> Result(Invalid, st, <<Err("unknown type")>>)

----------------------------------------------------------------------------
(* Canonical serializer *)

\* A key that is written only when the attribute is there.
Optional(key, value) == IF value = Absent THEN <<>> ELSE <<<<key, value>>>>

\* A serializer that writes the name ahead of the namespace.
NameKeys_nameFirst(decl) ==
    <<Str("name", decl.name)>> \o Optional("namespace", decl.namespace)
       \o Optional("doc", decl.doc)

\* The name of a named type: its namespace when it wrote one, then its name,
\* then its doc.  A fixed has no doc.
NameKeys(decl) ==
    Optional("namespace", decl.namespace) \o <<Str("name", decl.name)>>
       \o Optional("doc", decl.doc)

RECURSIVE ToTree(_)

\* {"name":...,"type":...,"doc":...,"default":...}
FieldTree(f) ==
    JObject(<<Str("name", f.name), <<"type", ToTree(f.type)>>>>
               \o Optional("doc", f.doc) \o Optional("default", f.default))

\* The JSON value a node is written as: a primitive and a reference to a
\* named type as a bare name, a union as an array, the others as an object
\* with type first, then the name, then the structural key.
ToTree(node) ==
    CASE node.t = "primitive" -> JString(node.kind)
      [] node.t = "symbolic" -> JString(node.name)
      [] node.t = "union" ->
            JArray([i \in 1..Len(node.branches) |-> ToTree(node.branches[i])])
      [] node.t = "array" ->
            JObject(<<Str("type", "array"), <<"items", ToTree(node.items)>>>>)
      [] node.t = "map" ->
            JObject(<<Str("type", "map"), <<"values", ToTree(node.values)>>>>)
      [] node.t = "record" ->
            JObject(<<Str("type", "record")>> \o NameKeys(node.decl)
                       \o <<<<"fields",
                              JArray([i \in 1..Len(node.fields) |->
                                         FieldTree(node.fields[i])])>>>>)
      [] node.t = "enum" ->
            JObject(<<Str("type", "enum")>> \o NameKeys(node.decl)
                       \o <<<<"symbols",
                              JArray([i \in 1..Len(node.symbols) |->
                                         JString(node.symbols[i])])>>>>)
      [] node.t = "fixed" ->
            JObject(<<Str("type", "fixed")>>
                       \o NameKeys([node.decl EXCEPT !.doc = Absent])
                       \o <<<<"size", JInt(node.size)>>>>)
      [] OTHER -> Malformed

\* ValidSchema::toJson(pretty)
toJson(schema, pretty) == Write(ToTree(schema.root), pretty, 0)

----------------------------------------------------------------------------
(* The schema documents of the tests, as text with the whitespace between
   tokens left out *)

\* const char* basicSchemas[]
basicSchemas ==
    << \* line 32
       <<S("null")>>,
       \* line 33
       <<S("boolean")>>,
       \* line 34
       <<S("int")>>,
       \* line 35
       <<S("long")>>,
       \* line 36
       <<S("float")>>,
       \* line 37
       <<S("double")>>,
       \* line 38
       <<S("bytes")>>,
       \* line 39
       <<S("string")>>,
       \* line 42
       <<P("{"), S("type"), P(":"), S("null"), P("}")>>,
       \* line 43
       <<P("{"), S("type"), P(":"), S("boolean"), P("}")>>,
       \* line 44
       <<P("{"), S("type"), P(":"), S("int"), P("}")>>,
       \* line 45
       <<P("{"), S("type"), P(":"), S("long"), P("}")>>,
       \* line 46
       <<P("{"), S("type"), P(":"), S("float"), P("}")>>,
       \* line 47
       <<P("{"), S("type"), P(":"), S("double"), P("}")>>,
       \* line 48
       <<P("{"), S("type"), P(":"), S("bytes"), P("}")>>,
       \* line 49
       <<P("{"), S("type"), P(":"), S("string"), P("}")>>,
       \* line 52
       <<P("{"), S("type"), P(":"), S("record"), P(","), S("name"), P(":"),
         S("Test"), P(","), S("doc"), P(":"), S("Doc_string"), P(","),
         S("fields"), P(":"), P("["), P("]"), P("}")>>,
       \* lines 53-54
       <<P("{"), S("type"), P(":"), S("record"), P(","), S("name"), P(":"),
         S("Test"), P(","), S("fields"), P(":"), P("["), P("{"), S("name"),
         P(":"), S("f"), P(","), S("type"), P(":"), S("long"), P("}"), P("]"),
         P("}")>>,
       \* lines 55-57
       <<P("{"), S("type"), P(":"), S("record"), P(","), S("name"), P(":"),
         S("Test"), P(","), S("fields"), P(":"), P("["), P("{"), S("name"),
         P(":"), S("f1"), P(","), S("type"), P(":"), S("long"), P(","), S("doc"),
         P(":"), S("field_doc"), P("}"), P(","), P("{"), S("name"), P(":"),
         S("f2"), P(","), S("type"), P(":"), S("int"), P("}"), P("]"), P("}")>>,
       \* lines 58-60
       <<P("{"), S("type"), P(":"), S("error"), P(","), S("name"), P(":"),
         S("Test"), P(","), S("fields"), P(":"), P("["), P("{"), S("name"),
         P(":"), S("f1"), P(","), S("type"), P(":"), S("long"), P("}"), P(","),
         P("{"), S("name"), P(":"), S("f2"), P(","), S("type"), P(":"), S("int"),
         P("}"), P("]"), P("}")>>,
       \* lines 63-65
       <<P("{"), S("type"), P(":"), S("record"), P(","), S("name"), P(":"),
         S("LongList"), P(","), S("fields"), P(":"), P("["), P("{"), S("name"),
         P(":"), S("value"), P(","), S("type"), P(":"), S("long"), P(","),
         S("doc"), P(":"), S("recursive_doc"), P("}"), P(","), P("{"), S("name"),
         P(":"), S("next"), P(","), S("type"), P(":"), P("["), S("LongList"),
         P(","), S("null"), P("]"), P("}"), P("]"), P("}")>>,
       \* line 67
       <<P("{"), S("type"), P(":"), S("enum"), P(","), S("doc"), P(":"),
         S("enum_doc"), P(","), S("name"), P(":"), S("Test"), P(","),
         S("symbols"), P(":"), P("["), S("A"), P(","), S("B"), P("]"), P("}")>>,
       \* line 70
       <<P("{"), S("type"), P(":"), S("array"), P(","), S("doc"), P(":"),
         S("array_doc"), P(","), S("items"), P(":"), S("long"), P("}")>>,
       \* lines 71-72
       <<P("{"), S("type"), P(":"), S("array"), P(","), S("items"), P(":"),
         P("{"), S("type"), P(":"), S("enum"), P(","), S("name"), P(":"),
         S("Test"), P(","), S("symbols"), P(":"), P("["), S("A"), P(","), S("B"),
         P("]"), P("}"), P("}")>>,
       \* line 75
       <<P("{"), S("type"), P(":"), S("map"), P(","), S("doc"), P(":"),
         S("map_doc"), P(","), S("values"), P(":"), S("long"), P("}")>>,
       \* lines 76-77
       <<P("{"), S("type"), P(":"), S("map"), P(","), S("values"), P(":"),
         P("{"), S("type"), P(":"), S("enum"), P(","), S("name"), P(":"),
         S("Test"), P(","), S("symbols"), P(":"), P("["), S("A"), P(","), S("B"),
         P("]"), P("}"), P("}")>>,
       \* line 80
       <<P("["), S("string"), P(","), S("null"), P(","), S("long"), P("]")>>,
       \* line 83
       <<P("{"), S("type"), P(":"), S("fixed"), P(","), S("doc"), P(":"),
         S("fixed_doc"), P(","), S("name"), P(":"), S("Test"), P(","), S("size"),
         P(":"), N(1), P("}")>>,
       \* lines 84-85
       <<P("{"), S("type"), P(":"), S("fixed"), P(","), S("name"), P(":"),
         S("MyFixed"), P(","), S("namespace"), P(":"),
         S("org.apache.hadoop.avro"), P(","), S("size"), P(":"), N(1), P("}")>>,
       \* line 86
       <<P("{"), S("type"), P(":"), S("fixed"), P(","), S("name"), P(":"),
         S("Test"), P(","), S("size"), P(":"), N(1), P("}")>>,
       \* line 87
       <<P("{"), S("type"), P(":"), S("fixed"), P(","), S("name"), P(":"),
         S("Test"), P(","), S("size"), P(":"), N(1), P("}")>>,
       \* line 90
       <<P("{"), S("type"), P(":"), S("null"), P(","), S("extra attribute"),
         P(":"), S("should be ignored"), P("}")>>,
       \* line 91
       <<P("{"), S("type"), P(":"), S("boolean"), P(","), S("extra1"), P(":"),
         N(1), P(","), S("extra2"), P(":"), N(2), P(","), S("extra3"), P(":"),
         N(3), P("}")>>,
       \* lines 92-93
       <<P("{"), S("type"), P(":"), S("record"), P(","), S("name"), P(":"),
         S("Test"), P(","), S("fields"), P(":"), P("["), P("{"), S("name"),
         P(":"), S("f"), P(","), S("type"), P(":"), S("long"), P("}"), P("]"),
         P(","), S("extra attribute"), P(":"), N(1), P("}")>>,
       \* lines 94-95
       <<P("{"), S("type"), P(":"), S("enum"), P(","), S("name"), P(":"),
         S("Test"), P(","), S("symbols"), P(":"), P("["), S("A"), P(","), S("B"),
         P("]"), P(","), S("extra attribute"), P(":"), N(1), P("}")>>,
       \* line 96
       <<P("{"), S("type"), P(":"), S("array"), P(","), S("items"), P(":"),
         S("long"), P(","), S("extra attribute"), P(":"), N(1), P("}")>>,
       \* line 97
       <<P("{"), S("type"), P(":"), S("map"), P(","), S("values"), P(":"),
         S("long"), P(","), S("extra attribute"), P(":"), N(1), P("}")>>,
       \* line 98
       <<P("{"), S("type"), P(":"), S("fixed"), P(","), S("name"), P(":"),
         S("Test"), P(","), S("size"), P(":"), N(1), P(","),
         S("extra attribute"), P(":"), N(1), P("}")>>,
       \* line 102
       <<P("{"), S("name"), P(":"), S("test"), P(","), S("type"), P(":"),
         S("record"), P(","), S("fields"), P(":"), P("["), P("{"), S("name"),
         P(":"), S("double"), P(","), S("type"), P(":"), S("double"), P(","),
         S("default"), P(":"), N(2), P("}"), P("]"), P("}")>>,
       \* line 104
       <<P("{"), S("name"), P(":"), S("test"), P(","), S("type"), P(":"),
         S("record"), P(","), S("fields"), P(":"), P("["), P("{"), S("name"),
         P(":"), S("double"), P(","), S("type"), P(":"), S("double"), P(","),
         S("default"), P(":"), D("1.2"), P("}"), P("]"), P("}")>> >>

\* const char* roundTripSchemas[]
roundTripSchemas ==
    << \* line 156
       <<S("null")>>,
       \* line 157
       <<S("boolean")>>,
       \* line 158
       <<S("int")>>,
       \* line 159
       <<S("long")>>,
       \* line 160
       <<S("float")>>,
       \* line 161
       <<S("double")>>,
       \* line 162
       <<S("bytes")>>,
       \* line 163
       <<S("string")>>,
       \* line 165
       <<P("{"), S("type"), P(":"), S("record"), P(","), S("name"), P(":"),
         S("Test"), P(","), S("fields"), P(":"), P("["), P("]"), P("}")>>,
       \* lines 166-167
       <<P("{"), S("type"), P(":"), S("record"), P(","), S("name"), P(":"),
         S("Test"), P(","), S("fields"), P(":"), P("["), P("{"), S("name"),
         P(":"), S("f"), P(","), S("type"), P(":"), S("long"), P("}"), P("]"),
         P("}")>>,
       \* lines 168-170
       <<P("{"), S("type"), P(":"), S("record"), P(","), S("name"), P(":"),
         S("Test"), P(","), S("fields"), P(":"), P("["), P("{"), S("name"),
         P(":"), S("f1"), P(","), S("type"), P(":"), S("long"), P("}"), P(","),
         P("{"), S("name"), P(":"), S("f2"), P(","), S("type"), P(":"), S("int"),
         P("}"), P("]"), P("}")>>,
       \* lines 177-179
       <<P("{"), S("type"), P(":"), S("record"), P(","), S("name"), P(":"),
         S("LongList"), P(","), S("fields"), P(":"), P("["), P("{"), S("name"),
         P(":"), S("value"), P(","), S("type"), P(":"), S("long"), P("}"),
         P(","), P("{"), S("name"), P(":"), S("next"), P(","), S("type"), P(":"),
         P("["), S("LongList"), P(","), S("null"), P("]"), P("}"), P("]"), P("}")>>,
       \* line 181
       <<P("{"), S("type"), P(":"), S("enum"), P(","), S("name"), P(":"),
         S("Test"), P(","), S("symbols"), P(":"), P("["), S("A"), P(","), S("B"),
         P("]"), P("}")>>,
       \* line 184
       <<P("{"), S("type"), P(":"), S("array"), P(","), S("items"), P(":"),
         S("long"), P("}")>>,
       \* lines 185-186
       <<P("{"), S("type"), P(":"), S("array"), P(","), S("items"), P(":"),
         P("{"), S("type"), P(":"), S("enum"), P(","), S("name"), P(":"),
         S("Test"), P(","), S("symbols"), P(":"), P("["), S("A"), P(","), S("B"),
         P("]"), P("}"), P("}")>>,
       \* line 189
       <<P("{"), S("type"), P(":"), S("map"), P(","), S("values"), P(":"),
         S("long"), P("}")>>,
       \* lines 190-191
       <<P("{"), S("type"), P(":"), S("map"), P(","), S("values"), P(":"),
         P("{"), S("type"), P(":"), S("enum"), P(","), S("name"), P(":"),
         S("Test"), P(","), S("symbols"), P(":"), P("["), S("A"), P(","), S("B"),
         P("]"), P("}"), P("}")>>,
       \* line 194
       <<P("["), S("string"), P(","), S("null"), P(","), S("long"), P("]")>>,
       \* line 197
       <<P("{"), S("type"), P(":"), S("fixed"), P(","), S("name"), P(":"),
         S("Test"), P(","), S("size"), P(":"), N(1), P("}")>>,
       \* lines 198-199
       <<P("{"), S("type"), P(":"), S("fixed"), P(","), S("namespace"), P(":"),
         S("org.apache.hadoop.avro"), P(","), S("name"), P(":"), S("MyFixed"),
         P(","), S("size"), P(":"), N(1), P("}")>>,
       \* line 200
       <<P("{"), S("type"), P(":"), S("fixed"), P(","), S("name"), P(":"),
         S("Test"), P(","), S("size"), P(":"), N(1), P("}")>>,
       \* line 201
       <<P("{"), S("type"), P(":"), S("fixed"), P(","), S("name"), P(":"),
         S("Test"), P(","), S("size"), P(":"), N(1), P("}")>> >>

----------------------------------------------------------------------------
(* The schema documents of the tests, as the parser's trees *)

LongField(name) == JObject(<<Str("name", name), Str("type", "long")>>)
SymbolsAB == <<"symbols", JArray(<<JString("A"), JString("B")>>)>>
EnumTest == JObject(<<Str("type", "enum"), Str("name", "Test"), SymbolsAB>>)
DoubleField(default) ==
    JObject(<<Str("name", "test"), Str("type", "record"),
              <<"fields", JArray(<<JObject(<<Str("name", "double"),
                                             Str("type", "double"),
                                             <<"default", default>>>>)>>)>>>>)
\* {"type":"record","name":"LongList","fields":[{"name":"value","type":"long"},
\*  {"name":"next","type":[next,"null"]}]}
LongList(next) ==
    JObject(<<Str("type", "record"), Str("name", "LongList"),
              <<"fields", JArray(<<LongField("value"),
                                   JObject(<<Str("name", "next"),
                                             <<"type", JArray(<<JString(next),
                                                                JString("null")>>)>>>>)>>)>>>>)

\* basicSchemas
DocLong == JString("long")
DocLongObject == JObject(<<Str("type", "long")>>)
DocRecord ==
    JObject(<<Str("type", "record"), Str("name", "Test"),
              <<"fields", JArray(<<LongField("f")>>)>>>>)
DocRecursive == LongList("LongList")
DocEnum ==
    JObject(<<Str("type", "enum"), Str("doc", "enum_doc"), Str("name", "Test"),
              SymbolsAB>>)
DocArrayOfEnum == JObject(<<Str("type", "array"), <<"items", EnumTest>>>>)
DocMap == JObject(<<Str("type", "map"), Str("doc", "map_doc"), Str("values", "long")>>)
DocUnion == JArray(<<JString("string"), JString("null"), JString("long")>>)
DocFixedNamespace ==
    JObject(<<Str("type", "fixed"), Str("name", "MyFixed"),
              Str("namespace", "org.apache.hadoop.avro"), <<"size", JInt(1)>>>>)
DocFixedExtra ==
    JObject(<<Str("type", "fixed"), Str("name", "Test"), <<"size", JInt(1)>>,
              <<"extra attribute", JInt(1)>>>>)
DocDefaultLong == DoubleField(JInt(2))
DocDefaultDouble == DoubleField(JDouble("1.2"))

\* basicSchemaErrors
DocNoFields == JObject(<<Str("type", "record"), Str("name", "LongList")>>)
DocFieldsNotArray ==
    JObject(<<Str("type", "record"), Str("name", "LongList"), Str("fields", "hi")>>)
DocUndefinedName == LongList("LongListA")
DocSymbolsNotArray ==
    JObject(<<Str("type", "enum"), Str("name", "Status"),
              Str("symbols", "Normal Caution Critical")>>)
DocNameNotString ==
    JObject(<<Str("type", "enum"),
              <<"name", JArray(<<JInt(0), JInt(1), JInt(1), JInt(2), JInt(3),
                                 JInt(5), JInt(8)>>)>>,
              <<"symbols", JArray(<<JString("Golden"), JString("Mean")>>)>>>>)
DocEnumNoName ==
    JObject(<<Str("type", "enum"),
              <<"symbols", JArray(<<JString("I"), JString("will"), JString("fail"),
                                    JString("no"), JString("name")>>)>>>>)
DocDuplicateSymbol ==
    JObject(<<Str("type", "enum"), Str("name", "Test"),
              <<"symbols", JArray(<<JString("AA"), JString("AA")>>)>>>>)
DocUnionDuplicate == JArray(<<JString("string"), JString("long"), JString("long")>>)
DocUnionTwoArrays ==
    JArray(<<JObject(<<Str("type", "array"), Str("items", "long")>>),
             JObject(<<Str("type", "array"), Str("items", "string")>>)>>)
DocFixedNoSize == JObject(<<Str("type", "fixed"), Str("name", "Missing size")>>)
DocFixedNoName == JObject(<<Str("type", "fixed"), <<"size", JInt(314)>>>>)
DocDefaultNull == DoubleField(JNull)
DocDefaultString == DoubleField(JString("string"))

\* Two independent errors in separate branches: a field of an undefined type
\* and a field whose enum repeats a symbol.
DocTwoErrors ==
    JObject(<<Str("type", "record"), Str("name", "Two"),
              <<"fields",
                JArray(<<JObject(<<Str("name", "a"), Str("type", "Nowhere")>>),
                         JObject(<<Str("name", "b"),
                                   <<"type", DocDuplicateSymbol>>>>)>>)>>>>)

\* Unions the distinctness rule speaks of and the tests do not hold: two maps,
\* a union directly inside a union, a named type and a reference to it, and a
\* union of one branch of every shape.
LongContainer(type, key) == JObject(<<Str("type", type), Str(key, "long")>>)
FixedA == JObject(<<Str("type", "fixed"), Str("name", "A"), <<"size", JInt(1)>>>>)

\* Fields with a null default: of type null, of a union with null, of a union
\* without null, and of type long.
NullField(type) ==
    JObject(<<Str("name", "test"), Str("type", "record"),
              <<"fields", JArray(<<JObject(<<Str("name", "f"), <<"type", type>>,
                                             <<"default", JNull>>>>)>>)>>>>)

ValidDocs ==
    {"Long", "LongObject", "Record", "Recursive", "Enum", "ArrayOfEnum", "Map",
     "Union", "FixedNamespace", "FixedExtra", "DefaultLong", "DefaultDouble",
     "UnionMixed", "NullOnNull", "NullOnNullable"}

ErrorDocs ==
    {"NoFields", "FieldsNotArray", "UndefinedName", "SymbolsNotArray",
     "NameNotString", "EnumNoName", "DuplicateSymbol", "UnionDuplicate",
     "UnionTwoArrays", "FixedNoSize", "FixedNoName", "DefaultNull",
     "DefaultString", "TwoErrors", "Malformed", "UnionTwoMaps", "UnionNested",
     "UnionSameName", "NullOnUnion", "NullOnLong"}

DocIds == ValidDocs \cup ErrorDocs

Doc(id) ==
    CASE id = "Long" -> DocLong
      [] id = "LongObject" -> DocLongObject
      [] id = "Record" -> DocRecord
      [] id = "Recursive" -> DocRecursive
      [] id = "Enum" -> DocEnum
      [] id = "ArrayOfEnum" -> DocArrayOfEnum
      [] id = "Map" -> DocMap
      [] id = "Union" -> DocUnion
      [] id = "FixedNamespace" -> DocFixedNamespace
      [] id = "FixedExtra" -> DocFixedExtra
      [] id = "DefaultLong" -> DocDefaultLong
      [] id = "DefaultDouble" -> DocDefaultDouble
      [] id = "NoFields" -> DocNoFields
      [] id = "FieldsNotArray" -> DocFieldsNotArray
      [] id = "UndefinedName" -> DocUndefinedName
      [] id = "SymbolsNotArray" -> DocSymbolsNotArray
      [] id = "NameNotString" -> DocNameNotString
      [] id = "EnumNoName" -> DocEnumNoName
      [] id = "DuplicateSymbol" -> DocDuplicateSymbol
      [] id = "UnionDuplicate" -> DocUnionDuplicate
      [] id = "UnionTwoArrays" -> DocUnionTwoArrays
      [] id = "FixedNoSize" -> DocFixedNoSize
      [] id = "FixedNoName" -> DocFixedNoName
      [] id = "DefaultNull" -> DocDefaultNull
      [] id = "DefaultString" -> DocDefaultString
      [] id = "TwoErrors" -> DocTwoErrors
      [] id = "UnionTwoMaps" ->
            JArray(<<LongContainer("map", "values"),
                     JObject(<<Str("type", "map"), Str("values", "string")>>)>>)
      [] id = "UnionNested" -> JArray(<<JString("null"), JArray(<<JString("long")>>)>>)
      [] id = "UnionSameName" -> JArray(<<FixedA, JString("A")>>)
      [] id = "UnionMixed" ->
            JArray(<<JString("null"), LongContainer("array", "items"),
                     LongContainer("map", "values"), EnumTest, FixedA>>)
      [] id = "NullOnNull" -> NullField(JString("null"))
      [] id = "NullOnNullable" -> NullField(JArray(<<JString("null"), JString("long")>>))
      [] id = "NullOnUnion" -> NullField(JArray(<<JString("long"), JString("string")>>))
      [] id = "NullOnLong" -> NullField(JString("long"))
      [] OTHER -> Malformed

----------------------------------------------------------------------------
(* The compile entry point *)

\* The messages of the errors a builder log holds, in the order of the log.
RECURSIVE ErrorsOf(_)
ErrorsOf(ev) ==
    IF ev = <<>> THEN <<>>
    ELSE (IF Head(ev)[1] = "error" THEN <<Head(ev)[2]>> ELSE <<>>) \o ErrorsOf(Tail(ev))

\* One pass of the builder over a document, with a symbol table of its own.
\* A text that does not parse has no tree to walk.
BuildDocument(doc) ==
    IF doc = Malformed THEN Result(Invalid, EmptyTable, <<Err("malformed JSON")>>)
    ELSE Build(doc, "", EmptyTable)

Modes == {"fail-fast", "accumulate-all"}

\* The log up to and including its first error.
UpToFirstError(ev) ==
    LET at == {i \in 1..Len(ev) : ev[i][1] = "error"}
    IN  IF at = {} THEN ev
        ELSE SubSeq(ev, 1, CHOOSE i \in at : \A k \in at : i <= k)

\* The pass of one compile call: in accumulate-all mode it runs to the end of
\* the document, in fail-fast mode the first error aborts it.
\* A fail-fast pass that runs on after its first error.
Cut_never(p, mode) == p

Cut(p, mode) ==
    IF mode = "fail-fast" THEN [p EXCEPT !.ev = UpToFirstError(p.ev)] ELSE p

Pass(doc, mode) == Cut(BuildDocument(doc), mode)

\* Whether the pass stopped at an error: a fail-fast pass at its first error,
\* any pass at a text that does not parse.
Aborted(doc, mode, pass) ==
    HasError(pass.ev) /\ (mode = "fail-fast" \/ doc = Malformed)

NoPass == Result(Invalid, EmptyTable, <<>>)

\* compile(jsonText) -> ValidSchema | failure
ValidSchema(root, st) == [kind |-> "ValidSchema", root |-> root, symbols |-> DOMAIN st]
Failure == [kind |-> "failure", root |-> Invalid, symbols |-> {}]
NotReturned == [kind |-> "none", root |-> Invalid, symbols |-> {}]

\* A compile call that returns what it built whatever it reported.
Outcome_partial(pass, recorded) == ValidSchema(pass.node, pass.st)

\* What a compile call returns after a pass that reported `recorded` errors.
Outcome(pass, recorded) ==
    IF recorded = 0 THEN ValidSchema(pass.node, pass.st) ELSE Failure

----------------------------------------------------------------------------
(* Calls *)

NoFrame ==
    [op |-> "none", this |-> avro_error_state, msg |-> "", output |-> nullout,
     iters |-> 0, ret |-> "done", doc |-> "", mode |-> "", pending |-> <<>>,
     pass |-> NoPass, recorded |-> 0, aborted |-> FALSE, result |-> NotReturned,
     schema |-> <<>>, compiledSchema |-> NotReturned, stripped |-> <<>>,
     result2 |-> <<>>, checks |-> <<>>]

NoHist == [queue |-> <<>>, flag |-> FALSE, buffers |-> [s \in StreamIds |-> <<>>]]

\* The state a call starts from, kept to state what the call did.
Snapshot(this) ==
    [queue |-> error_state_messages[this], flag |-> has_errored[this],
     buffers |-> buffers]

\* A thread is between calls.
Ready(t) == pc[t] \in {"idle", "done"}

\* Every thread is between calls.
Quiescent == \A t \in Threads : Ready(t)

\* Thread t leaves the function it is in.
Return(t) == pc' = [pc EXCEPT ![t] = frame[t].ret]

\* A caller default-initialises an error_state of its own.  The struct
\* declares no constructor and no member initialiser: the queue's own
\* constructor leaves it empty, and has_errored is left with an indeterminate
\* value, so either value may be read from it.
Construct(t, e) ==
    /\ Ready(t)
    /\ e \notin DOMAIN has_errored
    /\ error_state_messages' =
          [i \in DOMAIN error_state_messages \cup {e} |->
              IF i = e THEN <<>> ELSE error_state_messages[i]]
    /\ \E indeterminate \in BOOLEAN :
          has_errored' = [i \in DOMAIN has_errored \cup {e} |->
                             IF i = e THEN indeterminate ELSE has_errored[i]]
    /\ frame' = [frame EXCEPT ![t] = [NoFrame EXCEPT !.op = "construct", !.this = e]]
    /\ hist' = [hist EXCEPT ![t] = NoHist]
    /\ pc' = [pc EXCEPT ![t] = "done"]
    /\ UNCHANGED buffers

\* A caller calls recordError(msg) on an accumulator.
CallRecordError(t, this, msg) ==
    /\ Ready(t)
    /\ Len(error_state_messages[this]) < MaxQueue
    /\ frame' = [frame EXCEPT ![t] =
                    [NoFrame EXCEPT !.op = "recordError", !.this = this, !.msg = msg]]
    /\ hist' = [hist EXCEPT ![t] = Snapshot(this)]
    /\ pc' = [pc EXCEPT ![t] = "L34"]
    /\ UNCHANGED <<error_state_messages, has_errored, buffers>>

\* A recordError that leaves the flag as it was.
recordError_L34_noflag(t) ==
    /\ pc[t] = "L34"
    /\ pc' = [pc EXCEPT ![t] = "L35"]
    /\ UNCHANGED <<error_state_messages, has_errored, buffers, frame, hist>>

\* has_errored = true;
recordError_L34(t) ==
    /\ pc[t] = "L34"
    /\ has_errored' = [has_errored EXCEPT ![frame[t].this] = TRUE]
    /\ pc' = [pc EXCEPT ![t] = "L35"]
    /\ UNCHANGED <<error_state_messages, buffers, frame, hist>>

\* A recordError whose push replaces what was queued.
recordError_L35_replace(t) ==
    /\ pc[t] = "L35"
    /\ error_state_messages' =
          [error_state_messages EXCEPT ![frame[t].this] = <<frame[t].msg>>]
    /\ Return(t)
    /\ UNCHANGED <<has_errored, buffers, frame, hist>>

\* error_state_messages.push(msg);
recordError_L35(t) ==
    /\ pc[t] = "L35"
    /\ error_state_messages' =
          [error_state_messages EXCEPT ![frame[t].this] = push(@, frame[t].msg)]
    /\ Return(t)
    /\ UNCHANGED <<has_errored, buffers, frame, hist>>

\* Room in the stream behind `output` for every queued message.
Fits(this, sb) ==
    Len(buffers[sb]) + 2 * Len(error_state_messages[this]) <= 2 * MaxLines

\* A caller calls emptyState() on an accumulator.
CallEmptyState(t, this) ==
    /\ Ready(t)
    /\ frame' = [frame EXCEPT ![t] =
                    [NoFrame EXCEPT !.op = "emptyState", !.this = this]]
    /\ hist' = [hist EXCEPT ![t] = Snapshot(this)]
    /\ pc' = [pc EXCEPT ![t] = "L38"]
    /\ UNCHANGED <<error_state_messages, has_errored, buffers>>

\* std::ostream nullout(nullptr);
emptyState_L38(t) ==
    /\ pc[t] = "L38"
    /\ frame' = [frame EXCEPT ![t].output = nullout]
    /\ pc' = [pc EXCEPT ![t] = "L39"]
    /\ UNCHANGED <<error_state_messages, has_errored, buffers, hist>>

\* throwError(nullout);
emptyState_L39(t) ==
    /\ pc[t] = "L39"
    /\ pc' = [pc EXCEPT ![t] = "L45"]
    /\ UNCHANGED <<error_state_messages, has_errored, buffers, frame, hist>>

\* A caller calls throwError() on an accumulator.
CallThrowError(t, this) ==
    /\ Ready(t)
    /\ Fits(this, "cerr")
    /\ frame' = [frame EXCEPT ![t] =
                    [NoFrame EXCEPT !.op = "throwError", !.this = this]]
    /\ hist' = [hist EXCEPT ![t] = Snapshot(this)]
    /\ pc' = [pc EXCEPT ![t] = "L42"]
    /\ UNCHANGED <<error_state_messages, has_errored, buffers>>

\* throwError(std::cerr);
throwError_L42(t) ==
    /\ pc[t] = "L42"
    /\ frame' = [frame EXCEPT ![t].output = std_cerr]
    /\ pc' = [pc EXCEPT ![t] = "L45"]
    /\ UNCHANGED <<error_state_messages, has_errored, buffers, hist>>

\* A caller calls throwError(output) with a stream of its own.
CallThrowErrorTo(t, this, sb) ==
    /\ Ready(t)
    /\ Fits(this, sb)
    /\ frame' = [frame EXCEPT ![t] =
                    [NoFrame EXCEPT !.op = "throwErrorTo", !.this = this,
                                    !.output = ostream(sb)]]
    /\ hist' = [hist EXCEPT ![t] = Snapshot(this)]
    /\ pc' = [pc EXCEPT ![t] = "L45"]
    /\ UNCHANGED <<error_state_messages, has_errored, buffers>>

\* while (!error_state_messages.empty()) {
throwError_L45(t) ==
    /\ pc[t] = "L45"
    /\ pc' = [pc EXCEPT ![t] =
                IF empty(error_state_messages[frame[t].this]) THEN "L49" ELSE "L46"]
    /\ UNCHANGED <<error_state_messages, has_errored, buffers, frame, hist>>

\* output << error_state_messages.front() << "\n";
throwError_L46(t) ==
    /\ pc[t] = "L46"
    /\ buffers' = Insert(Insert(buffers, frame[t].output,
                                front(error_state_messages[frame[t].this])),
                         frame[t].output, NL)
    /\ pc' = [pc EXCEPT ![t] = "L47"]
    /\ UNCHANGED <<error_state_messages, has_errored, frame, hist>>

\* error_state_messages.pop(); }
throwError_L47(t) ==
    /\ pc[t] = "L47"
    /\ error_state_messages' =
          [error_state_messages EXCEPT ![frame[t].this] = pop(@)]
    /\ frame' = [frame EXCEPT ![t].iters = @ + 1]
    /\ pc' = [pc EXCEPT ![t] = "L45"]
    /\ UNCHANGED <<has_errored, buffers, hist>>

\* A throwError that ends its output with one more newline.
throwError_L49_newline(t) ==
    /\ pc[t] = "L49"
    /\ buffers' = Insert(buffers, frame[t].output, NL)
    /\ has_errored' = [has_errored EXCEPT ![frame[t].this] = FALSE]
    /\ Return(t)
    /\ UNCHANGED <<error_state_messages, frame, hist>>

\* A throwError that returns with the flag as it found it.
throwError_L49_keep(t) ==
    /\ pc[t] = "L49"
    /\ Return(t)
    /\ UNCHANGED <<error_state_messages, has_errored, buffers, frame, hist>>

\* has_errored = false;
throwError_L49(t) ==
    /\ pc[t] = "L49"
    /\ has_errored' = [has_errored EXCEPT ![frame[t].this] = FALSE]
    /\ Return(t)
    /\ UNCHANGED <<error_state_messages, buffers, frame, hist>>

\* A compile call that starts by emptying the accumulator.
CallCompile_fresh(t, id, mode) ==
    /\ Ready(t)
    /\ frame' = [frame EXCEPT ![t] =
                    [NoFrame EXCEPT !.op = "compile", !.doc = id, !.mode = mode]]
    /\ hist' = [hist EXCEPT ![t] = Snapshot(avro_error_state)]
    /\ pc' = [pc EXCEPT ![t] = "build"]
    /\ error_state_messages' = [error_state_messages EXCEPT ![avro_error_state] = <<>>]
    /\ has_errored' = [has_errored EXCEPT ![avro_error_state] = FALSE]
    /\ UNCHANGED buffers

\* A caller calls compileJsonSchemaFromString(schema).
CallCompile(t, id, mode) ==
    /\ Ready(t)
    /\ Len(error_state_messages[avro_error_state]) < MaxQueue
    /\ frame' = [frame EXCEPT ![t] =
                    [NoFrame EXCEPT !.op = "compile", !.doc = id, !.mode = mode]]
    /\ hist' = [hist EXCEPT ![t] = Snapshot(avro_error_state)]
    /\ pc' = [pc EXCEPT ![t] = "build"]
    /\ UNCHANGED <<error_state_messages, has_errored, buffers>>

\* The frame of a compile call whose pass is over: its errors are to report.
Passed(f, pass) ==
    [f EXCEPT !.pass = pass, !.pending = ErrorsOf(pass.ev),
              !.aborted = Aborted(Doc(f.doc), f.mode, pass)]

\* The builder and the validator pass over the document.
compile_build(t) ==
    /\ pc[t] = "build"
    /\ frame' = [frame EXCEPT ![t] =
                    Passed(frame[t], Pass(Doc(frame[t].doc), frame[t].mode))]
    /\ pc' = [pc EXCEPT ![t] = "report"]
    /\ UNCHANGED <<error_state_messages, has_errored, buffers, hist>>

\* Each error of the pass goes to avro_error_state.recordError; then the call
\* returns.
compile_report(t) ==
    /\ pc[t] = "report"
    /\ IF frame[t].pending # <<>>
       THEN /\ frame' = [frame EXCEPT ![t].this = avro_error_state,
                                      ![t].msg = Head(frame[t].pending),
                                      ![t].pending = Tail(frame[t].pending),
                                      ![t].recorded = @ + 1,
                                      ![t].ret = "report"]
            /\ pc' = [pc EXCEPT ![t] = "L34"]
       ELSE /\ frame' = [frame EXCEPT ![t].result =
                            Outcome(frame[t].pass, frame[t].recorded)]
            /\ pc' = [pc EXCEPT ![t] = "done"]
    /\ UNCHANGED <<error_state_messages, has_errored, buffers, hist>>

\* What compileJsonSchemaFromString(text) computes: the text is parsed, the
\* tree is built and validated with a symbol table of its own, and every
\* error is reported.
CompileText(text) == BuildDocument(Parse(text))
Compiled(pass) == Outcome(pass, Len(ErrorsOf(pass.ev)))

\* The test calls testRoundTrip(schema).
CallTestRoundTrip(t, schema) ==
    /\ Ready(t)
    /\ frame' = [frame EXCEPT ![t] =
                    [NoFrame EXCEPT !.op = "testRoundTrip", !.schema = schema]]
    /\ hist' = [hist EXCEPT ![t] = Snapshot(avro_error_state)]
    /\ pc' = [pc EXCEPT ![t] = "L254"]
    /\ UNCHANGED <<error_state_messages, has_errored, buffers>>

\* The call of line 254 has built `pass`: its errors go to avro_error_state
\* and its outcome to compiledSchema.  Without a ValidSchema the test has
\* nothing to serialize.
Compile_L254(t, pass) ==
    /\ frame' = [frame EXCEPT ![t].pass = pass, ![t].compiledSchema = Compiled(pass)]
    /\ error_state_messages' =
          [error_state_messages EXCEPT ![avro_error_state] = @ \o ErrorsOf(pass.ev)]
    /\ has_errored' =
          [has_errored EXCEPT ![avro_error_state] = @ \/ HasError(pass.ev)]
    /\ pc' = [pc EXCEPT ![t] = IF HasError(pass.ev) THEN "done" ELSE "L256"]

\* avro::ValidSchema compiledSchema = compileJsonSchemaFromString(std::string(schema));
testRoundTrip_L254(t) ==
    /\ pc[t] = "L254"
    /\ Compile_L254(t, CompileText(frame[t].schema))
    /\ UNCHANGED <<buffers, hist>>

\* std::ostringstream os;
testRoundTrip_L256(t) ==
    /\ pc[t] = "L256"
    /\ buffers' = [buffers EXCEPT !["os"] = <<>>]
    /\ pc' = [pc EXCEPT ![t] = "L257"]
    /\ UNCHANGED <<error_state_messages, has_errored, frame, hist>>

\* compiledSchema.toJson(os);
testRoundTrip_L257(t) ==
    /\ pc[t] = "L257"
    /\ buffers' = [buffers EXCEPT !["os"] = @ \o toJson(frame[t].compiledSchema, TRUE)]
    /\ pc' = [pc EXCEPT ![t] = "L258"]
    /\ UNCHANGED <<error_state_messages, has_errored, frame, hist>>

\* std::string result = os.str(); result.erase(std::remove_if(...), result.end());
testRoundTrip_L258(t) ==
    /\ pc[t] = "L258"
    /\ frame' = [frame EXCEPT ![t].stripped = Strip(buffers["os"])]
    /\ pc' = [pc EXCEPT ![t] = "L260"]
    /\ UNCHANGED <<error_state_messages, has_errored, buffers, hist>>

\* BOOST_CHECK(result == std::string(schema));
testRoundTrip_L260(t) ==
    /\ pc[t] = "L260"
    /\ frame' = [frame EXCEPT ![t].checks =
                    Append(@, frame[t].stripped = frame[t].schema)]
    /\ pc' = [pc EXCEPT ![t] = "L263"]
    /\ UNCHANGED <<error_state_messages, has_errored, buffers, hist>>

\* std::string result2 = compiledSchema.toJson(false);
testRoundTrip_L263(t) ==
    /\ pc[t] = "L263"
    /\ frame' = [frame EXCEPT ![t].result2 = toJson(frame[t].compiledSchema, FALSE)]
    /\ pc' = [pc EXCEPT ![t] = "L264"]
    /\ UNCHANGED <<error_state_messages, has_errored, buffers, hist>>

\* BOOST_CHECK(result2 == std::string(schema));
testRoundTrip_L264(t) ==
    /\ pc[t] = "L264"
    /\ frame' = [frame EXCEPT ![t].checks =
                    Append(@, frame[t].result2 = frame[t].schema)]
    /\ pc' = [pc EXCEPT ![t] = "done"]
    /\ UNCHANGED <<error_state_messages, has_errored, buffers, hist>>

----------------------------------------------------------------------------
(* One caller using the accumulator's interface, one call after another *)

Init ==
    /\ error_state_messages = [i \in Instances |-> <<>>]
    /\ has_errored = [i \in Instances |-> FALSE]
    /\ buffers = [s \in StreamIds |-> <<>>]
    /\ pc = [t \in Threads |-> "idle"]
    /\ frame = [t \in Threads |-> NoFrame]
    /\ hist = [t \in Threads |-> NoHist]

Next ==
    \/ \E this \in Instances, msg \in Msgs : CallRecordError(1, this, msg)
    \/ \E this \in Instances : CallEmptyState(1, this)
    \/ \E this \in Instances : CallThrowError(1, this)
    \/ \E this \in Instances : CallThrowErrorTo(1, this, "os")
    \/ recordError_L34(1)
    \/ recordError_L35(1)
    \/ emptyState_L38(1)
    \/ emptyState_L39(1)
    \/ throwError_L42(1)
    \/ throwError_L45(1)
    \/ throwError_L46(1)
    \/ throwError_L47(1)
    \/ throwError_L49(1)

Spec == Init /\ [][Next]_vars

----------------------------------------------------------------------------
(* One caller compiling documents, one call after another, and emptying the
   accumulator between calls when it chooses to *)

CompileNext ==
    \/ \E id \in DocIds, mode \in Modes : CallCompile(1, id, mode)
    \/ CallEmptyState(1, avro_error_state)
    \/ compile_build(1)
    \/ compile_report(1)
    \/ recordError_L34(1)
    \/ recordError_L35(1)
    \/ emptyState_L38(1)
    \/ emptyState_L39(1)
    \/ throwError_L45(1)
    \/ throwError_L46(1)
    \/ throwError_L47(1)
    \/ throwError_L49(1)

CompileSpec == Init /\ [][CompileNext]_vars

----------------------------------------------------------------------------
(* Two callers compiling at the same time, their statements interleaved *)

ConcDocs == {"Long", "NoFields", "FixedNoSize"}

\* No thread other than t is emptying the accumulator: two drains at once
\* would pop an empty queue.
NoOtherDrain(t) == \A u \in Threads \ {t} : frame[u].op # "emptyState" \/ Ready(u)

\* No thread other than t has a long drain behind it: a drain that new
\* calls keep feeding would never end.
NoLongDrain(t) == \A u \in Threads \ {t} : Ready(u) \/ frame[u].iters < MaxQueue

ConcNext ==
    \/ \E t \in Threads, id \in ConcDocs :
          NoLongDrain(t) /\ CallCompile(t, id, "accumulate-all")
    \/ \E t \in Threads : NoOtherDrain(t) /\ CallEmptyState(t, avro_error_state)
    \/ \E t \in Threads : compile_build(t)
    \/ \E t \in Threads : compile_report(t)
    \/ \E t \in Threads : recordError_L34(t)
    \/ \E t \in Threads : recordError_L35(t)
    \/ \E t \in Threads : emptyState_L38(t)
    \/ \E t \in Threads : emptyState_L39(t)
    \/ \E t \in Threads : throwError_L45(t)
    \/ \E t \in Threads : throwError_L46(t)
    \/ \E t \in Threads : throwError_L47(t)
    \/ \E t \in Threads : throwError_L49(t)

ConcSpec == Init /\ [][ConcNext]_vars

----------------------------------------------------------------------------
(* One caller that constructs an accumulator of its own and uses it and the
   global one *)

LocalNext ==
    \* `error_state e;` in a function body
    \/ Construct(1, "e")
    \/ \E this \in DOMAIN has_errored, msg \in Msgs : CallRecordError(1, this, msg)
    \/ \E this \in DOMAIN has_errored : CallEmptyState(1, this)
    \/ \E this \in DOMAIN has_errored : CallThrowError(1, this)
    \/ recordError_L34(1)
    \/ recordError_L35(1)
    \/ emptyState_L38(1)
    \/ emptyState_L39(1)
    \/ throwError_L42(1)
    \/ throwError_L45(1)
    \/ throwError_L46(1)
    \/ throwError_L47(1)
    \/ throwError_L49(1)

LocalSpec == Init /\ [][LocalNext]_vars

----------------------------------------------------------------------------
(* One thread recording errors while another drains the same accumulator,
   their statements interleaved: no statement of error_state takes a lock *)

RaceNext ==
    \/ \E msg \in Msgs :
          \* there is room in the stream for what is queued and one message more
          /\ Len(buffers["os"]) + 2 * (Len(error_state_messages[avro_error_state]) + 1)
                <= 2 * MaxLines
          /\ CallRecordError(1, avro_error_state, msg)
    \/ CallThrowErrorTo(2, avro_error_state, "os")
    \/ \E t \in Threads : recordError_L34(t)
    \/ \E t \in Threads : recordError_L35(t)
    \/ \E t \in Threads : throwError_L45(t)
    \/ \E t \in Threads : throwError_L46(t)
    \/ \E t \in Threads : throwError_L47(t)
    \/ \E t \in Threads : throwError_L49(t)

RaceSpec == Init /\ [][RaceNext]_vars

----------------------------------------------------------------------------
(* The round trip test run on every valid document of the tests *)

\* The documents testRoundTrip is run on: those of roundTripSchemas, and
\* those of basicSchemas, which are valid as well.
RoundNext ==
    \/ \E i \in 1..Len(roundTripSchemas) : CallTestRoundTrip(1, roundTripSchemas[i])
    \/ \E i \in 1..Len(basicSchemas) : CallTestRoundTrip(1, basicSchemas[i])
    \/ testRoundTrip_L254(1)
    \/ testRoundTrip_L256(1)
    \/ testRoundTrip_L257(1)
    \/ testRoundTrip_L258(1)
    \/ testRoundTrip_L260(1)
    \/ testRoundTrip_L263(1)
    \/ testRoundTrip_L264(1)

RoundSpec == Init /\ [][RoundNext]_vars

----------------------------------------------------------------------------
(* A running call runs on: the code has no suspension point. *)

Steps ==
    \/ recordError_L34(1)
    \/ recordError_L35(1)
    \/ emptyState_L38(1)
    \/ emptyState_L39(1)
    \/ throwError_L42(1)
    \/ throwError_L45(1)
    \/ throwError_L46(1)
    \/ throwError_L47(1)
    \/ throwError_L49(1)

FairSpec == Spec /\ WF_vars(Steps)

----------------------------------------------------------------------------
(* Properties *)

global == avro_error_state

\* Thread t has returned from a call of op.
Returned(t, op) == pc[t] = "done" /\ frame[t].op = op

\* The lines throwError writes for a queue: every message, oldest first, each
\* followed by one newline.
RECURSIVE Lines(_)
Lines(q) == IF q = <<>> THEN <<>> ELSE <<Head(q), NL>> \o Lines(Tail(q))

\* C1: recordError(msg) leaves the queue equal to the queue it started from
\* with msg appended at the tail, and leaves has_errored true; the call
\* returns (the model of lines 33-36 has no other way out).
C1_RecordErrorAppends ==
    \A t \in Threads :
        Returned(t, "recordError") =>
            /\ error_state_messages[frame[t].this]
                  = hist[t].queue \o <<frame[t].msg>>
            /\ has_errored[frame[t].this]

\* recordError has returned on a queue that held two messages already.
C1_Witness ==
    \E t \in Threads :
        /\ Returned(t, "recordError")
        /\ Len(hist[t].queue) = 2
        /\ hist[t].queue[1] # hist[t].queue[2]

\* What a drain into the stream behind buffer sb leaves, for thread t.
Drained(t, sb) ==
    /\ buffers[sb] = hist[t].buffers[sb] \o Lines(hist[t].queue)
    /\ \A other \in StreamIds \ {sb} : buffers[other] = hist[t].buffers[other]
    /\ error_state_messages[frame[t].this] = <<>>
    /\ ~has_errored[frame[t].this]
    /\ frame[t].iters = Len(hist[t].queue)

\* C2: from a queue holding m1..mn, throwError(output) on a writable stream
\* appends to it exactly the lines m1, ..., mn, each followed by one newline,
\* in the order recorded, and ends with the queue empty and has_errored
\* false, after exactly n iterations of the loop; and the loop terminates.
C2_ThrowErrorDrains ==
    /\ [](\A t \in Threads :
             /\ Returned(t, "throwError") => Drained(t, "cerr")
             /\ Returned(t, "throwErrorTo") => Drained(t, frame[t].output.rdbuf))
    /\ \A t \in Threads : (pc[t] = "L45") ~> (pc[t] = "done")

\* throwError(output) has returned after draining two different messages
\* into a stream that held a line before.
C2_Witness ==
    \E t \in Threads :
        /\ Returned(t, "throwErrorTo")
        /\ Len(hist[t].queue) = 2
        /\ hist[t].queue[1] # hist[t].queue[2]
        /\ hist[t].buffers["os"] # <<>>
        /\ frame[t].iters = 2

\* C3: emptyState() ends with the queue empty and has_errored false, the
\* accumulator state throwError(output) ends in, and writes no message to
\* any caller-visible stream.
C3_EmptyStateDiscards ==
    \A t \in Threads :
        Returned(t, "emptyState") =>
            /\ error_state_messages[frame[t].this] = <<>>
            /\ ~has_errored[frame[t].this]
            /\ buffers = hist[t].buffers
            /\ frame[t].iters = Len(hist[t].queue)

\* emptyState() has returned after discarding two messages.
C3_Witness ==
    \E t \in Threads :
        /\ Returned(t, "emptyState")
        /\ Len(hist[t].queue) = 2
        /\ hist[t].flag
        /\ buffers["cerr"] # <<>>

\* The messages a call has added to the accumulator it started on.
Added(t) ==
    SubSeq(error_state_messages[global], Len(hist[t].queue) + 1,
           Len(error_state_messages[global]))

\* The documents of the tests that hold a violation are those of
\* basicSchemaErrors, with the document of two errors and the text that does
\* not parse.
HasViolation(id) == id \in ErrorDocs

\* C4: whether a compile call succeeded or failed shows in its outcome: a
\* call on a document with a violation leaves has_errored true with at
\* least one message of that call in the queue, and a call on a valid
\* document is not reported as errored.
C4_OutcomeTellsSuccess ==
    \A t \in Threads :
        Returned(t, "compile") =>
            IF HasViolation(frame[t].doc)
            THEN has_errored[global] /\ Len(Added(t)) >= 1
            ELSE ~has_errored[global]

C6_TwoErrorsRecorded ==
    \A t \in Threads :
        /\ Returned(t, "compile")
        /\ frame[t].doc = "TwoErrors"
        /\ frame[t].mode = "accumulate-all"
        /\ hist[t].queue = <<>>
        /\ ~hist[t].flag
        => /\ error_state_messages[global]
                 = <<"undefined name", "duplicate enum symbol">>
           /\ has_errored[global]

\* The pass over the document of two errors has ended on an accumulator
\* that was empty.
C6_Witness ==
    \E t \in Threads :
        /\ Returned(t, "compile")
        /\ frame[t].doc = "TwoErrors"
        /\ frame[t].mode = "accumulate-all"
        /\ hist[t].queue = <<>>
        /\ Len(error_state_messages[global]) = 2

C9_Docs ==
    {"NoFields", "FieldsNotArray", "UndefinedName", "SymbolsNotArray",
     "NameNotString", "EnumNoName", "DuplicateSymbol", "FixedNoSize",
     "FixedNoName"}

\* C9: compiling a document that holds one of these violations ends with
\* has_errored true.
C9_ViolationsSetTheFlag ==
    \A t \in Threads :
        Returned(t, "compile") /\ frame[t].doc \in C9_Docs => has_errored[global]

\* A compile call on a fixed with no size has returned on an accumulator
\* that had not errored.
C9_Witness ==
    \E t \in Threads :
        /\ Returned(t, "compile")
        /\ frame[t].doc = "FixedNoSize"
        /\ ~hist[t].flag
        /\ hist[t].queue = <<>>

\* The entries of a log before position i.
Before(ev, i) == {ev[k] : k \in 1..(i - 1)}

\* C10: a named type is registered before any part of its body is
\* processed, so every name is resolved after it was registered, the record
\* that refers to itself in a field compiles, and a reference to a name
\* declared nowhere is an undefined-name error.
C10_RegisteredBeforeBody ==
    \A t \in Threads :
        Returned(t, "compile") =>
            LET ev == frame[t].pass.ev
            IN  /\ \A i \in 1..Len(ev) :
                      /\ ev[i][1] = "body" /\ ev[i][2] # Undefined =>
                            \/ Declared(ev[i][2]) \in Before(ev, i)
                            \/ Err("duplicate name") \in Before(ev, i)
                      /\ ev[i][1] = "resolve" => Declared(ev[i][2]) \in Before(ev, i)
                /\ frame[t].doc = "Recursive" =>
                      /\ ErrorsOf(ev) = <<>>
                      /\ frame[t].result.kind = "ValidSchema"
                      /\ \E i \in 1..Len(ev) :
                            /\ ev[i] = Resolved("LongList")
                            /\ Body("LongList") \in Before(ev, i)
                /\ frame[t].doc = "UndefinedName" =>
                      /\ Added(t) = <<"undefined name">>
                      /\ frame[t].result.kind = "failure"

\* The record that refers to itself has been compiled.
C10_Witness ==
    \E t \in Threads :
        /\ Returned(t, "compile")
        /\ frame[t].doc = "Recursive"
        /\ Resolved("LongList") \in Before(frame[t].pass.ev, Len(frame[t].pass.ev) + 1)

\* The unions of a graph: the node itself when it is one, and those of its
\* fields, items, values and branches.
RECURSIVE UnionsOf(_)
UnionsOf(node) ==
    CASE node.t = "record" ->
            UNION {UnionsOf(node.fields[i].type) : i \in 1..Len(node.fields)}
      [] node.t = "array" -> UnionsOf(node.items)
      [] node.t = "map" -> UnionsOf(node.values)
      [] node.t = "union" ->
            {node} \cup UNION {UnionsOf(node.branches[i]) : i \in 1..Len(node.branches)}
      [] OTHER -> {}

IsNamed(node) == node.t \in {"record", "enum", "fixed", "symbolic"}

\* Two branches of one union that the rule forbids side by side.
Clash(a, b) ==
    \/ a.t = "primitive" /\ b.t = "primitive" /\ a.kind = b.kind
    \/ IsNamed(a) /\ IsNamed(b) /\ a.name = b.name
    \/ a.t = "array" /\ b.t = "array"
    \/ a.t = "map" /\ b.t = "map"

\* The documents whose union breaks the rule.
UnionViolationDocs ==
    {"UnionDuplicate", "UnionTwoArrays", "UnionTwoMaps", "UnionNested",
     "UnionSameName"}

\* C11: in every graph a compile call returns as compiled, no union holds
\* two primitives of one kind, two named types of one qualified name, two
\* arrays, two maps, or a union; and compiling a document whose union breaks
\* the rule fails with the duplicate-union-member error.
C11_UnionsDistinct ==
    \A t \in Threads :
        Returned(t, "compile") =>
            /\ frame[t].result.kind = "ValidSchema" =>
                  \A u \in UnionsOf(frame[t].result.root) :
                      \A i, k \in 1..Len(u.branches) :
                          /\ u.branches[i].t # "union"
                          /\ i # k => ~Clash(u.branches[i], u.branches[k])
            /\ frame[t].doc \in UnionViolationDocs =>
                  /\ frame[t].result.kind = "failure"
                  /\ \E i \in 1..Len(Added(t)) :
                        Added(t)[i] = "union contains duplicate type"

\* The union of a null, an array, a map, an enum and a fixed has compiled.
C11_Witness ==
    \E t \in Threads :
        /\ Returned(t, "compile")
        /\ frame[t].doc = "UnionMixed"
        /\ frame[t].result.kind = "ValidSchema"
        /\ Len(frame[t].result.root.branches) = 5

\* The documents of one field with a default the field's type takes, and
\* those with a default it does not take.
DefaultTaken == {"DefaultLong", "DefaultDouble", "NullOnNull", "NullOnNullable"}
DefaultRefused == {"DefaultNull", "DefaultString", "NullOnUnion", "NullOnLong"}

\* C13: a field's default is accepted exactly when its JSON kind is
\* assignable to the field's type: a double field with default 2 or 1.2
\* compiles with no error, with default null or "string" it fails with the
\* default-value-type-mismatch error and no other; a null default compiles on
\* a field of type null or of a union with null, and fails on any other.
C13_DefaultTyping ==
    \A t \in Threads :
        Returned(t, "compile") =>
            /\ frame[t].doc \in DefaultTaken =>
                  /\ Added(t) = <<>>
                  /\ frame[t].result.kind = "ValidSchema"
                  /\ frame[t].result.root.fields[1].default
                        = Get(Get(Doc(frame[t].doc), "fields").a[1], "default")
            /\ frame[t].doc \in DefaultRefused =>
                  /\ Added(t) = <<"default value type mismatch">>
                  /\ frame[t].result.kind = "failure"

\* A double field with the default 2 has compiled, on an accumulator that
\* held nothing.
C13_Witness ==
    \E t \in Threads :
        /\ Returned(t, "compile")
        /\ frame[t].doc = "DefaultLong"
        /\ hist[t].queue = <<>>
        /\ frame[t].result.root.fields[1].default = JInt(2)

\* C14: between the calls of one caller on the accumulator that started
\* with an empty queue and has_errored false, has_errored is true exactly
\* when the queue holds a message.
C14_FlagIffNonEmpty ==
    Quiescent =>
        (has_errored[global] <=> error_state_messages[global] # <<>>)

\* A message has been recorded after an earlier drain wrote to std::cerr.
C14_Witness ==
    /\ Returned(1, "recordError")
    /\ hist[1].queue = <<>>
    /\ ~hist[1].flag
    /\ buffers["cerr"] # <<>>
    /\ has_errored[global]

\* Sequence a is the head of sequence b.
IsPrefix(a, b) == Len(a) <= Len(b) /\ SubSeq(b, 1, Len(a)) = a

\* The caller is inside throwError, at the pop or at the clearing of the flag;
\* emptyState runs the same lines.
InDrain == pc[1] \in {"L47", "L49"}

\* C15: errors are sticky on the shared accumulator: no step but a step of
\* throwError (called directly or by emptyState) sets has_errored to false
\* or takes a message out of the queue, so through every compile call the
\* messages recorded stay queued ahead of the later ones and the flag stays
\* true.
C15_ErrorsAreSticky ==
    [][~InDrain =>
          /\ has_errored[global] => has_errored'[global]
          /\ IsPrefix(error_state_messages[global], error_state_messages'[global])]_vars

\* A compile call on a document with an error has returned on an accumulator
\* that still holds, ahead of its own message, the message of an earlier
\* call.
C15_Witness ==
    /\ Returned(1, "compile")
    /\ hist[1].queue = <<"missing size">>
    /\ hist[1].flag
    /\ error_state_messages[global] = <<"missing size", "undefined name">>
    /\ has_errored[global]

\* The calls that drain: throwError(), throwError(output) and emptyState().
DrainOps == {"throwError", "throwErrorTo", "emptyState"}

\* C16: draining is idempotent: the accumulator a drain leaves has an empty
\* queue and has_errored false, so that is what a drain called right after
\* it starts from; and a drain called on an empty queue writes nothing to
\* any stream, does not go through the loop, and leaves the queue empty and
\* has_errored false.
C16_DrainIsIdempotent ==
    /\ [](\A t \in Threads :
             pc[t] = "done" /\ frame[t].op \in DrainOps /\ hist[t].queue = <<>> =>
                 /\ buffers = hist[t].buffers
                 /\ frame[t].iters = 0
                 /\ error_state_messages[frame[t].this] = <<>>
                 /\ ~has_errored[frame[t].this])
    /\ [][\A t \in Threads :
             /\ pc[t] = "done" /\ frame[t].op \in DrainOps
             /\ pc'[t] # "done" /\ frame'[t].op \in DrainOps
             => hist'[t].queue = <<>> /\ ~hist'[t].flag]_vars

\* throwError() has returned from an empty queue, after an earlier drain had
\* written to std::cerr.
C16_Witness ==
    /\ Returned(1, "throwError")
    /\ hist[1].queue = <<>>
    /\ hist[1].buffers["cerr"] # <<>>
    /\ frame[1].iters = 0

\* C17: every accumulator starts with an empty queue and has_errored false:
\* the global avro_error_state before any call is made, and an error_state
\* a caller has just constructed.
C17_StartsEmptyAndFalse ==
    /\ (\A t \in Threads : pc[t] = "idle") =>
           /\ error_state_messages[global] = <<>>
           /\ ~has_errored[global]
    /\ \A t \in Threads :
           Returned(t, "construct") =>
               /\ error_state_messages[frame[t].this] = <<>>
               /\ ~has_errored[frame[t].this]

\* The messages among the tokens a stream holds.
RECURSIVE MessagesIn(_)
MessagesIn(buf) ==
    IF buf = <<>> THEN <<>>
    ELSE (IF Head(buf) = NL THEN <<>> ELSE <<Head(buf)>>) \o MessagesIn(Tail(buf))

\* C18: when recordError on one thread and throwError on another have run on
\* the same accumulator with their statements interleaved and both have
\* returned, a queue that holds a message has has_errored true, and the
\* message recorded is not lost: it is the last of the messages written to
\* the drain's stream followed by those still queued.
C18_NoMessageLeftUnflagged ==
    Returned(1, "recordError") /\ Returned(2, "throwErrorTo") =>
        /\ error_state_messages[global] # <<>> => has_errored[global]
        /\ LET kept == MessagesIn(buffers["os"]) \o error_state_messages[global]
           IN  kept # <<>> /\ kept[Len(kept)] = frame[1].msg

\* The keys of an object, in the order written.
Keys(json) == [i \in 1..Len(json.o) |-> json.o[i][1]]

\* The orders in which the header of a named type is written canonically:
\* type, then the namespace if any, then the name, then, on a record, the
\* doc if any, then the structural key.
NamedKeys(key, docs) ==
    {<<"type">> \o ns \o <<"name">> \o doc \o <<key>> :
        ns \in {<<>>, <<"namespace">>}, doc \in docs}

\* The kind of declaration an object is: the string under its type key.
KindOf(json) ==
    IF json.j = "object" /\ Get(json, "type").j = "string"
    THEN Get(json, "type").s ELSE ""

RECURSIVE Canonical(_)

\* A field in canonical form: name, type, then the doc if any.
CanonicalField(f) ==
    /\ f.j = "object"
    /\ Keys(f) \in {<<"name", "type">>, <<"name", "type", "doc">>}
    /\ Canonical(Get(f, "type"))

\* A document in the form the serializer writes: named types and primitives
\* referred to by a bare name, unions as arrays, and objects that hold the
\* attributes the round trip tests hold, no other, in the serializer's order.
Canonical(json) ==
    CASE json.j = "string" -> TRUE
      [] json.j = "array" -> \A i \in 1..Len(json.a) : Canonical(json.a[i])
      [] KindOf(json) = "record" ->
            /\ Keys(json) \in NamedKeys("fields", {<<>>, <<"doc">>})
            /\ Get(json, "fields").j = "array"
            /\ \A i \in 1..Len(Get(json, "fields").a) :
                  CanonicalField(Get(json, "fields").a[i])
      [] KindOf(json) = "enum" -> Keys(json) \in NamedKeys("symbols", {<<>>})
      [] KindOf(json) = "fixed" -> Keys(json) \in NamedKeys("size", {<<>>})
      [] KindOf(json) = "array" ->
            Keys(json) = <<"type", "items">> /\ Canonical(Get(json, "items"))
      [] KindOf(json) = "map" ->
            Keys(json) = <<"type", "values">> /\ Canonical(Get(json, "values"))
      [] OTHER -> FALSE

\* Serialising what compiling a text gives.
Reserialised(text) == toJson(Compiled(CompileText(text)), FALSE)

\* The round trip test has run to its end on a document that is not an
\* error-kind record.
RoundTripDone(t) ==
    Returned(t, "testRoundTrip") /\ KindOf(Parse(frame[t].schema)) # "error"

====
